---------------------------- MODULE Spec2Model ----------------------------
(***************************************************************************)
(* Model of go/chat/attachment/crypto.go: the sign-then-encrypt streaming  *)
(* construction for chat attachments (packet codec, AttachmentEncoder,     *)
(* AttachmentDecoder, the all-at-once wrappers and the error kinds).       *)
(*                                                                         *)
(* Bytes are symbolic.  A byte is a record:                                *)
(*   [t |-> "raw", v |-> 0..255]      a byte with a known numeric value    *)
(*                                    (plaintext, the bin32 header);       *)
(*   [t |-> "sig", sk, signed, i]     the i-th byte of the ed25519         *)
(*                                    signature of `signed` under sk;      *)
(*   [t |-> "box", key, nonce, boxed, j]  the j-th byte of the secretbox   *)
(*                                    of `boxed` under (key, nonce).       *)
(* ed25519 and secretbox are libraries outside the repository; they are    *)
(* modelled by their contracts: a signature verifies only for the message  *)
(* and key pair that made it, a secretbox opens only when every byte is    *)
(* the one Seal produced for that key and nonce, SHA-512 is injective.     *)
(*                                                                         *)
(* The sizes of crypto.go are scaled down so that whole streams can be     *)
(* enumerated: the chunk length, the signature size and the secretbox      *)
(* overhead are the bounds ChunkScale, SigScale and BoxScale.  The bin32   *)
(* header keeps its 5 bytes and its 32-bit big-endian length.              *)
(***************************************************************************)
EXTENDS Integers, Sequences, FiniteSets, TLC

(***************************************************************************)
(* Bounds of the model.                                                    *)
(***************************************************************************)
ChunkScale == 2
SigScale == 1
BoxScale == 1
MaxPlain == 5
MaxAfter == 1
ChunkNumBits == 3

(***************************************************************************)
(* Constants of crypto.go.                                                 *)
(***************************************************************************)
SignaturePrefix == "keybase chat attachment\\x00"
PlaintextChunkLength == ChunkScale
SignatureSize == SigScale
SecretboxOverhead == BoxScale
Bin32Tag == 198
Bin32Overhead == 5
PacketLength == PlaintextChunkLength + SignatureSize + SecretboxOverhead + Bin32Overhead

(***************************************************************************)
(* Keys and nonces.  K1, SK1, N1 belong to the honest sender; the others   *)
(* are a second symmetric key, a second signing key pair and a second      *)
(* stream nonce.                                                           *)
(***************************************************************************)
SecretboxKeys == {"K1", "K2"}
SignKeys == {"SK1", "SK2"}
AttachmentNonces == {"N1", "N2"}

\* The key material one sender may hold.
Senders ==
    {[encKey |-> "K1", signKey |-> "SK1", nonce |-> "N1"],
     [encKey |-> "K2", signKey |-> "SK2", nonce |-> "N2"]}

PublicKey(signKey) == [pub |-> signKey]

VerifyKeys == {PublicKey(sk) : sk \in SignKeys}

PlainByteValues == {97, 98}

Raw(v) == [t |-> "raw", v |-> v]

PlainBytes == {Raw(v) : v \in PlainByteValues}

(***************************************************************************)
(* Sequence helpers (Go slices).                                           *)
(***************************************************************************)
Slice(s, from, to) == SubSeq(s, from + 1, to)

RECURSIVE SeqsUpTo(_, _)
SeqsUpTo(S, n) ==
    IF n = 0 THEN {<<>>}
    ELSE LET shorter == SeqsUpTo(S, n - 1)
         IN  shorter \cup {Append(s, x) : s \in {q \in shorter : Len(q) = n - 1}, x \in S}

(***************************************************************************)
(* Errors: AttachmentCryptoError{Type, Message}.  Message is the format    *)
(* string's arguments, which is what distinguishes two errors of one Type. *)
(***************************************************************************)
nil == [Type |-> "nil"]

ErrorTypes ==
    {"BadSecretbox", "ShortSignature", "BadSignature",
     "ShortMessagePackObject", "WrongMessagePackFormat", "WrongMessagePackLength"}

NewAttachmentError(errorType, args) == [Type |-> errorType, Message |-> args]

(***************************************************************************)
(* Libraries, by contract.                                                 *)
(***************************************************************************)
Sha512(plaintext) == [sha512 |-> plaintext]

Ed25519Sign(signKey, message) ==
    [i \in 1..SignatureSize |-> [t |-> "sig", sk |-> signKey, signed |-> message, i |-> i]]

Ed25519Verify(verifyKey, message, signature) ==
    \E sk \in SignKeys : PublicKey(sk) = verifyKey /\ signature = Ed25519Sign(sk, message)

SecretboxSeal(message, nonce, key) ==
    [j \in 1..(SecretboxOverhead + Len(message)) |->
        [t |-> "box", key |-> key, nonce |-> nonce, boxed |-> message, j |-> j]]

SecretboxOpen(box, nonce, key) ==
    IF /\ Len(box) >= SecretboxOverhead
       /\ Len(box) >= 1
       /\ box[1].t = "box"
       /\ box = SecretboxSeal(box[1].boxed, nonce, key)
    THEN [valid |-> TRUE, message |-> box[1].boxed]
    ELSE [valid |-> FALSE, message |-> <<>>]

(***************************************************************************)
(* 32-bit big-endian integers, digit by digit (base 256), so that the      *)
(* arithmetic of unpackCiphertext keeps its width.                         *)
(***************************************************************************)
PutUint32(n) ==
    <<Raw((n \div 16777216) % 256), Raw((n \div 65536) % 256),
      Raw((n \div 256) % 256), Raw(n % 256)>>

\* The numeric value of a byte.  A signature or secretbox byte has a value
\* the model does not know; it is given a value no header byte has, and a
\* stream in which such a byte happens to equal a header byte is the stream
\* with that raw byte in its place.
ByteValue(b) == IF b.t = "raw" THEN b.v ELSE 256

\* uint32(length + 5) as four base-256 digits, the carry out of the top
\* digit dropped.  A digit of unknown value stays unknown (256) and equals
\* no digit of a size.
Uint32Plus5(b3, b2, b1, b0) ==
    LET s0 == b0 + 5
        s1 == b1 + (IF b0 > 255 THEN 0 ELSE s0 \div 256)
        s2 == b2 + (IF b1 > 255 THEN 0 ELSE s1 \div 256)
        s3 == b3 + (IF b2 > 255 THEN 0 ELSE s2 \div 256)
        digit(b, s) == IF b > 255 THEN 256 ELSE s % 256
    IN  <<digit(b3, s3), digit(b2, s2), digit(b1, s1), digit(b0, s0)>>

Uint32Digits(n) ==
    <<(n \div 16777216) % 256, (n \div 65536) % 256, (n \div 256) % 256, n % 256>>

(***************************************************************************)
(* Single packet encoding and decoding.                                    *)
(***************************************************************************)
\* A chunk nonce that leaves the chunk number out.
makeChunkNonce_NoChunkNum(attachmentNonce, chunkNum) ==
    [attachmentNonce |-> attachmentNonce, chunkNum |-> 0]

makeChunkNonce(attachmentNonce, chunkNum) ==
    [attachmentNonce |-> attachmentNonce, chunkNum |-> chunkNum]

\* A signature input that leaves the symmetric key out.
makeSignatureInput_NoEncKey(plaintext, encKey, chunkNonce) ==
    [prefix |-> SignaturePrefix, encKey |-> "", chunkNonce |-> chunkNonce,
     chunkHash |-> Sha512(plaintext)]

makeSignatureInput(plaintext, encKey, chunkNonce) ==
    [prefix |-> SignaturePrefix, encKey |-> encKey, chunkNonce |-> chunkNonce,
     chunkHash |-> Sha512(plaintext)]

\* A length field that counts the header too.
packCiphertext_LengthWithHeader(ciphertext) ==
    <<Raw(Bin32Tag)>> \o PutUint32(Len(ciphertext) + Bin32Overhead) \o ciphertext

packCiphertext(ciphertext) ==
    <<Raw(Bin32Tag)>> \o PutUint32(Len(ciphertext)) \o ciphertext

\* The packet length without the bin32 header.
getPacketLen_NoHeader(plaintextLen) ==
    plaintextLen + SecretboxOverhead + SignatureSize

getPacketLen(plaintextLen) ==
    plaintextLen + SecretboxOverhead + SignatureSize + Bin32Overhead

sealPacket(plaintext, chunkNum, encKey, signKey, attachmentNonce) ==
    LET chunkNonce == makeChunkNonce(attachmentNonce, chunkNum)
        signatureInput == makeSignatureInput(plaintext, encKey, chunkNonce)
        signature == Ed25519Sign(signKey, signatureInput)
        signedChunk == signature \o plaintext
        ciphertextChunk == SecretboxSeal(signedChunk, chunkNonce, encKey)
    IN  packCiphertext(ciphertextChunk)

\* unpackCiphertext that takes the length field's bytes and ignores what
\* follows them.
unpackCiphertext_LooseLength(packet) ==
    IF Len(packet) < Bin32Overhead
    THEN [ciphertext |-> <<>>,
          err |-> NewAttachmentError("ShortMessagePackObject", [found |-> Len(packet)])]
    ELSE IF packet[1] # Raw(Bin32Tag)
    THEN [ciphertext |-> <<>>,
          err |-> NewAttachmentError("WrongMessagePackFormat", [tag |-> packet[1]])]
    ELSE LET length == <<ByteValue(packet[2]), ByteValue(packet[3]),
                         ByteValue(packet[4]), ByteValue(packet[5])>>
             size == IF length[1] > 0 THEN 16777216
                     ELSE 65536 * length[2] + 256 * length[3] + length[4]
         IN  IF size + Bin32Overhead > Len(packet)
             THEN [ciphertext |-> <<>>,
                   err |-> NewAttachmentError("WrongMessagePackLength",
                                              [length |-> length, size |-> Len(packet)])]
             ELSE [ciphertext |-> Slice(packet, Bin32Overhead, Bin32Overhead + size),
                   err |-> nil]

\* unpackCiphertext that does not look at the tag byte.
unpackCiphertext_NoTag(packet) ==
    IF Len(packet) < Bin32Overhead
    THEN [ciphertext |-> <<>>,
          err |-> NewAttachmentError("ShortMessagePackObject", [found |-> Len(packet)])]
    ELSE LET length == <<ByteValue(packet[2]), ByteValue(packet[3]),
                         ByteValue(packet[4]), ByteValue(packet[5])>>
         IN  IF Uint32Plus5(length[1], length[2], length[3], length[4])
                    # Uint32Digits(Len(packet))
             THEN [ciphertext |-> <<>>,
                   err |-> NewAttachmentError("WrongMessagePackLength",
                                              [length |-> length, size |-> Len(packet)])]
             ELSE [ciphertext |-> Slice(packet, Bin32Overhead, Len(packet)), err |-> nil]

\* unpackCiphertext that compares the length before it looks at the tag.
unpackCiphertext_LengthFirst(packet) ==
    IF Len(packet) < Bin32Overhead
    THEN [ciphertext |-> <<>>,
          err |-> NewAttachmentError("ShortMessagePackObject", [found |-> Len(packet)])]
    ELSE LET length == <<ByteValue(packet[2]), ByteValue(packet[3]),
                         ByteValue(packet[4]), ByteValue(packet[5])>>
         IN  IF Uint32Plus5(length[1], length[2], length[3], length[4])
                    # Uint32Digits(Len(packet))
             THEN [ciphertext |-> <<>>,
                   err |-> NewAttachmentError("WrongMessagePackLength",
                                              [length |-> length, size |-> Len(packet)])]
             ELSE IF packet[1] # Raw(Bin32Tag)
             THEN [ciphertext |-> <<>>,
                   err |-> NewAttachmentError("WrongMessagePackFormat", [tag |-> packet[1]])]
             ELSE [ciphertext |-> Slice(packet, Bin32Overhead, Len(packet)), err |-> nil]

\* unpackCiphertext that adds in 8 bits: only the last byte of the length
\* field and of the packet size are compared.
unpackCiphertext_LengthLowByte(packet) ==
    IF Len(packet) < Bin32Overhead
    THEN [ciphertext |-> <<>>,
          err |-> NewAttachmentError("ShortMessagePackObject", [found |-> Len(packet)])]
    ELSE IF packet[1] # Raw(Bin32Tag)
    THEN [ciphertext |-> <<>>,
          err |-> NewAttachmentError("WrongMessagePackFormat", [tag |-> packet[1]])]
    ELSE LET length == <<ByteValue(packet[2]), ByteValue(packet[3]),
                         ByteValue(packet[4]), ByteValue(packet[5])>>
         IN  IF Uint32Plus5(0, 0, 0, length[4])[4] # Uint32Digits(Len(packet))[4]
             THEN [ciphertext |-> <<>>,
                   err |-> NewAttachmentError("WrongMessagePackLength",
                                              [length |-> length, size |-> Len(packet)])]
             ELSE [ciphertext |-> Slice(packet, Bin32Overhead, Len(packet)), err |-> nil]

\* Returns [ciphertext, err].
unpackCiphertext(packet) ==
    IF Len(packet) < Bin32Overhead
    THEN [ciphertext |-> <<>>,
          err |-> NewAttachmentError("ShortMessagePackObject", [found |-> Len(packet)])]
    ELSE IF packet[1] # Raw(Bin32Tag)
    THEN [ciphertext |-> <<>>,
          err |-> NewAttachmentError("WrongMessagePackFormat", [tag |-> packet[1]])]
    ELSE LET length == <<ByteValue(packet[2]), ByteValue(packet[3]),
                         ByteValue(packet[4]), ByteValue(packet[5])>>
         IN  IF Uint32Plus5(length[1], length[2], length[3], length[4])
                    # Uint32Digits(Len(packet))
             THEN [ciphertext |-> <<>>,
                   err |-> NewAttachmentError("WrongMessagePackLength",
                                              [length |-> length, size |-> Len(packet)])]
             ELSE [ciphertext |-> Slice(packet, Bin32Overhead, Len(packet)), err |-> nil]

\* openPacket that does not verify the signature.
openPacket_NoVerify(packet, chunkNum, encKey, verifyKey, attachmentNonce) ==
    LET unpacked == unpackCiphertext(packet)
        chunkNonce == makeChunkNonce(attachmentNonce, chunkNum)
        opened == SecretboxOpen(unpacked.ciphertext, chunkNonce, encKey)
        signedChunk == opened.message
    IN  IF unpacked.err # nil
        THEN [plaintext |-> <<>>, err |-> unpacked.err]
        ELSE IF ~opened.valid
        THEN [plaintext |-> <<>>,
              err |-> NewAttachmentError("BadSecretbox", [secretbox |-> "failed to open"])]
        ELSE IF Len(signedChunk) < SignatureSize
        THEN [plaintext |-> <<>>,
              err |-> NewAttachmentError("ShortSignature", [signature |-> "too short"])]
        ELSE [plaintext |-> Slice(signedChunk, SignatureSize, Len(signedChunk)), err |-> nil]

\* openPacket that opens the secretbox under the stream nonce alone and
\* leaves the chunk number to the signature.
openPacket_BoxWithoutChunkNum(packet, chunkNum, encKey, verifyKey, attachmentNonce) ==
    LET unpacked == unpackCiphertext(packet)
        chunkNonce == makeChunkNonce(attachmentNonce, chunkNum)
        box == unpacked.ciphertext
        valid == /\ Len(box) >= SecretboxOverhead
                 /\ Len(box) >= 1
                 /\ box[1].t = "box"
                 /\ box[1].nonce.attachmentNonce = attachmentNonce
                 /\ box = SecretboxSeal(box[1].boxed, box[1].nonce, encKey)
        signedChunk == IF valid THEN box[1].boxed ELSE <<>>
        signature == Slice(signedChunk, 0, SignatureSize)
        plaintext == Slice(signedChunk, SignatureSize, Len(signedChunk))
        signatureInput == makeSignatureInput(plaintext, encKey, chunkNonce)
    IN  IF unpacked.err # nil
        THEN [plaintext |-> <<>>, err |-> unpacked.err]
        ELSE IF ~valid
        THEN [plaintext |-> <<>>,
              err |-> NewAttachmentError("BadSecretbox", [secretbox |-> "failed to open"])]
        ELSE IF Len(signedChunk) < SignatureSize
        THEN [plaintext |-> <<>>,
              err |-> NewAttachmentError("ShortSignature", [signature |-> "too short"])]
        ELSE IF ~Ed25519Verify(verifyKey, signatureInput, signature)
        THEN [plaintext |-> <<>>,
              err |-> NewAttachmentError("BadSignature", [signature |-> "failed to verify"])]
        ELSE [plaintext |-> plaintext, err |-> nil]

\* Returns [plaintext, err].
openPacket(packet, chunkNum, encKey, verifyKey, attachmentNonce) ==
    LET unpacked == unpackCiphertext(packet)
        chunkNonce == makeChunkNonce(attachmentNonce, chunkNum)
        opened == SecretboxOpen(unpacked.ciphertext, chunkNonce, encKey)
        signedChunk == opened.message
        signature == Slice(signedChunk, 0, SignatureSize)
        plaintext == Slice(signedChunk, SignatureSize, Len(signedChunk))
        signatureInput == makeSignatureInput(plaintext, encKey, chunkNonce)
    IN  IF unpacked.err # nil
        THEN [plaintext |-> <<>>, err |-> unpacked.err]
        ELSE IF ~opened.valid
        THEN [plaintext |-> <<>>,
              err |-> NewAttachmentError("BadSecretbox", [secretbox |-> "failed to open"])]
        ELSE IF Len(signedChunk) < SignatureSize
        THEN [plaintext |-> <<>>,
              err |-> NewAttachmentError("ShortSignature", [signature |-> "too short"])]
        ELSE IF ~Ed25519Verify(verifyKey, signatureInput, signature)
        THEN [plaintext |-> <<>>,
              err |-> NewAttachmentError("BadSignature", [signature |-> "failed to verify"])]
        ELSE [plaintext |-> plaintext, err |-> nil]

(***************************************************************************)
(* Streaming attachment encoding.  An operation on an encoder returns the  *)
(* encoder after the call, the bytes returned and whether it panicked.     *)
(***************************************************************************)
NewAttachmentEncoder(encKey, signKey, nonce) ==
    [encKey |-> encKey, signKey |-> signKey, nonce |-> nonce, buf |-> <<>>, chunkNum |-> 0]

Uint64Modulus == 2 ^ ChunkNumBits

EncoderSealOnePacket(e, plaintextLen) ==
    IF plaintextLen > Len(e.buf)
    THEN [e |-> e, output |-> <<>>, panic |-> TRUE]
    ELSE [e |-> [e EXCEPT !.buf = Slice(e.buf, plaintextLen, Len(e.buf)),
                          !.chunkNum = (e.chunkNum + 1) % Uint64Modulus],
          output |-> sealPacket(Slice(e.buf, 0, plaintextLen), e.chunkNum,
                                e.encKey, e.signKey, e.nonce),
          panic |-> FALSE]

\* Write with `if` in place of `for`: at most one packet per call.
EncoderWriteLoop_OnePacket(e, output) ==
    IF Len(e.buf) >= PlaintextChunkLength
    THEN LET sealed == EncoderSealOnePacket(e, PlaintextChunkLength)
         IN  [e |-> sealed.e, output |-> output \o sealed.output, panic |-> sealed.panic]
    ELSE [e |-> e, output |-> output, panic |-> FALSE]

RECURSIVE EncoderWriteLoop(_, _)
EncoderWriteLoop(e, output) ==
    IF Len(e.buf) >= PlaintextChunkLength
    THEN LET sealed == EncoderSealOnePacket(e, PlaintextChunkLength)
         IN  IF sealed.panic
             THEN [e |-> sealed.e, output |-> <<>>, panic |-> TRUE]
             ELSE EncoderWriteLoop(sealed.e, output \o sealed.output)
    ELSE [e |-> e, output |-> output, panic |-> FALSE]

EncoderWrite(e, plaintext) ==
    EncoderWriteLoop([e EXCEPT !.buf = e.buf \o plaintext], <<>>)

\* Finish that writes nothing when no input is buffered.
EncoderFinish_SkipEmpty(e) ==
    IF Len(e.buf) >= PlaintextChunkLength
    THEN [e |-> e, output |-> <<>>, panic |-> TRUE]
    ELSE IF Len(e.buf) = 0
    THEN [e |-> e, output |-> <<>>, panic |-> FALSE]
    ELSE EncoderSealOnePacket(e, Len(e.buf))

EncoderFinish(e) ==
    IF Len(e.buf) >= PlaintextChunkLength
    THEN [e |-> e, output |-> <<>>, panic |-> TRUE]
    ELSE EncoderSealOnePacket(e, Len(e.buf))

(***************************************************************************)
(* Streaming attachment decoding.  An operation on a decoder returns the   *)
(* decoder after the call, the plaintext and error returned and whether it *)
(* panicked.                                                               *)
(***************************************************************************)
NewAttachmentDecoder(encKey, verifyKey, nonce) ==
    [encKey |-> encKey, verifyKey |-> verifyKey, nonce |-> nonce,
     buf |-> <<>>, chunkNum |-> 0, err |-> nil]

DecoderOpenOnePacket(d, packetLen) ==
    IF packetLen > Len(d.buf)
    THEN [d |-> d, plaintext |-> <<>>, err |-> nil, panic |-> TRUE]
    ELSE LET opened == openPacket(Slice(d.buf, 0, packetLen), d.chunkNum,
                                  d.encKey, d.verifyKey, d.nonce)
         IN  IF opened.err # nil
             THEN [d |-> d, plaintext |-> <<>>, err |-> opened.err, panic |-> FALSE]
             ELSE [d |-> [d EXCEPT !.buf = Slice(d.buf, packetLen, Len(d.buf)),
                                   !.chunkNum = (d.chunkNum + 1) % Uint64Modulus],
                   plaintext |-> opened.plaintext, err |-> nil, panic |-> FALSE]

\* A Write loop that returns, with the error, the plaintext of the packets
\* opened before the failing one.
RECURSIVE DecoderWriteLoop_PartialOutput(_, _)
DecoderWriteLoop_PartialOutput(d, output) ==
    IF Len(d.buf) >= PacketLength
    THEN LET opened == DecoderOpenOnePacket(d, PacketLength)
             latched == [opened.d EXCEPT !.err = opened.err]
         IN  IF opened.panic
             THEN [d |-> opened.d, output |-> <<>>, err |-> nil, panic |-> TRUE]
             ELSE IF opened.err # nil
             THEN [d |-> latched, output |-> output, err |-> opened.err, panic |-> FALSE]
             ELSE DecoderWriteLoop_PartialOutput(latched, output \o opened.plaintext)
    ELSE [d |-> d, output |-> output, err |-> nil, panic |-> FALSE]

\* A Write loop with `if` in place of `for`: at most one packet per call.
DecoderWriteLoop_OnePacket(d, output) ==
    IF Len(d.buf) >= PacketLength
    THEN LET opened == DecoderOpenOnePacket(d, PacketLength)
         IN  [d |-> [opened.d EXCEPT !.err = opened.err],
              output |-> output \o opened.plaintext, err |-> opened.err,
              panic |-> opened.panic]
    ELSE [d |-> d, output |-> output, err |-> nil, panic |-> FALSE]

\* A Write loop that opens a packet as soon as the buffer holds the
\* smallest packet with plaintext in it, taking PacketLength bytes at most.
RECURSIVE DecoderWriteLoop_ShortPackets(_, _)
DecoderWriteLoop_ShortPackets(d, output) ==
    IF Len(d.buf) >= getPacketLen(1)
    THEN LET packetLen == IF Len(d.buf) < PacketLength THEN Len(d.buf) ELSE PacketLength
             opened == DecoderOpenOnePacket(d, packetLen)
             latched == [opened.d EXCEPT !.err = opened.err]
         IN  IF opened.panic
             THEN [d |-> opened.d, output |-> <<>>, err |-> nil, panic |-> TRUE]
             ELSE IF opened.err # nil
             THEN [d |-> latched, output |-> <<>>, err |-> opened.err, panic |-> FALSE]
             ELSE DecoderWriteLoop_ShortPackets(latched, output \o opened.plaintext)
    ELSE [d |-> d, output |-> output, err |-> nil, panic |-> FALSE]

RECURSIVE DecoderWriteLoop(_, _)
DecoderWriteLoop(d, output) ==
    IF Len(d.buf) >= PacketLength
    THEN LET opened == DecoderOpenOnePacket(d, PacketLength)
             latched == [opened.d EXCEPT !.err = opened.err]
         IN  IF opened.panic
             THEN [d |-> opened.d, output |-> <<>>, err |-> nil, panic |-> TRUE]
             ELSE IF opened.err # nil
             THEN [d |-> latched, output |-> <<>>, err |-> opened.err, panic |-> FALSE]
             ELSE DecoderWriteLoop(latched, output \o opened.plaintext)
    ELSE [d |-> d, output |-> output, err |-> nil, panic |-> FALSE]

\* Write that appends its input before it looks at the stored error.
DecoderWrite_AppendFirst(d, ciphertext) ==
    IF d.err # nil
    THEN [d |-> [d EXCEPT !.buf = d.buf \o ciphertext],
          output |-> <<>>, err |-> d.err, panic |-> FALSE]
    ELSE DecoderWriteLoop([d EXCEPT !.buf = d.buf \o ciphertext], <<>>)

DecoderWrite(d, ciphertext) ==
    IF d.err # nil
    THEN [d |-> d, output |-> <<>>, err |-> d.err, panic |-> FALSE]
    ELSE DecoderWriteLoop([d EXCEPT !.buf = d.buf \o ciphertext], <<>>)

\* Finish that returns the error of the last packet without storing it.
DecoderFinish_NoLatch(d) ==
    IF d.err # nil
    THEN [d |-> d, output |-> <<>>, err |-> d.err, panic |-> FALSE]
    ELSE IF Len(d.buf) >= PacketLength
    THEN [d |-> d, output |-> <<>>, err |-> nil, panic |-> TRUE]
    ELSE LET opened == DecoderOpenOnePacket(d, Len(d.buf))
         IN  [d |-> opened.d,
              output |-> opened.plaintext, err |-> opened.err, panic |-> opened.panic]

\* Finish that takes an empty buffer for the end of the stream.
DecoderFinish_EmptyIsEnd(d) ==
    IF d.err # nil
    THEN [d |-> d, output |-> <<>>, err |-> d.err, panic |-> FALSE]
    ELSE IF Len(d.buf) = 0
    THEN [d |-> d, output |-> <<>>, err |-> nil, panic |-> FALSE]
    ELSE LET opened == DecoderOpenOnePacket(d, Len(d.buf))
         IN  [d |-> [opened.d EXCEPT !.err = opened.err],
              output |-> opened.plaintext, err |-> opened.err, panic |-> opened.panic]

\* Finish that does not look at the stored error.
DecoderFinish_NoErrCheck(d) ==
    IF Len(d.buf) >= PacketLength
    THEN [d |-> d, output |-> <<>>, err |-> nil, panic |-> TRUE]
    ELSE LET opened == DecoderOpenOnePacket(d, Len(d.buf))
         IN  [d |-> [opened.d EXCEPT !.err = opened.err],
              output |-> opened.plaintext, err |-> opened.err, panic |-> opened.panic]

DecoderFinish(d) ==
    IF d.err # nil
    THEN [d |-> d, output |-> <<>>, err |-> d.err, panic |-> FALSE]
    ELSE IF Len(d.buf) >= PacketLength
    THEN [d |-> d, output |-> <<>>, err |-> nil, panic |-> TRUE]
    ELSE LET opened == DecoderOpenOnePacket(d, Len(d.buf))
         IN  [d |-> [opened.d EXCEPT !.err = opened.err],
              output |-> opened.plaintext, err |-> opened.err, panic |-> opened.panic]

(***************************************************************************)
(* All-at-once wrapper functions.                                          *)
(***************************************************************************)
GetSealedSize(plaintextLen) ==
    LET fullChunks == plaintextLen \div PlaintextChunkLength
        remainingPlaintext == plaintextLen % PlaintextChunkLength
    IN  fullChunks * getPacketLen(PlaintextChunkLength) + getPacketLen(remainingPlaintext)

SealWholeAttachment(plaintext, encKey, signKey, nonce) ==
    LET encoder == NewAttachmentEncoder(encKey, signKey, nonce)
        written == EncoderWrite(encoder, plaintext)
        finished == EncoderFinish(written.e)
    IN  written.output \o finished.output

\* Returns [output, err].
OpenWholeAttachment(sealed, encKey, verifyKey, nonce) ==
    LET decoder == NewAttachmentDecoder(encKey, verifyKey, nonce)
        written == DecoderWrite(decoder, sealed)
        finished == DecoderFinish(written.d)
    IN  IF written.err # nil
        THEN [output |-> <<>>, err |-> written.err]
        ELSE IF finished.err # nil
        THEN [output |-> <<>>, err |-> finished.err]
        ELSE [output |-> written.output \o finished.output, err |-> nil]

(***************************************************************************)
(* The state: one sender, one receiver.                                    *)
(*   e, d        the AttachmentEncoder and the AttachmentDecoder           *)
(*   encIn       the plaintext passed to the encoder so far                *)
(*   encOut      the bytes the encoder has returned so far                 *)
(*   encRet      the bytes the last encoder call returned                  *)
(*   encLast     the last encoder call: "New", "Write", "Finish", "Whole"  *)
(*   wire        the bytes in transit to the receiver: what the encoder    *)
(*               returned (Spec), or what the adversary made of the sealed *)
(*               attachment (SpecAdv)                                      *)
(*   fed         the bytes passed to decoder Write calls, up to and        *)
(*               including the call that returned the first error          *)
(*   decOut      the plaintext the decoder has returned so far             *)
(*   decRet      what the last decoder call returned: [output, err]        *)
(*   decLast     the last decoder call: "New", "Write", "Finish"           *)
(*   decCalls    [finishes, after]: whether Finish has been called, and    *)
(*               the calls made after the first Finish or the first error  *)
(*   firstErr    the first error a decoder call returned and the call that *)
(*               returned it: [err, by]                                    *)
(*   panicked    whether a call has panicked                               *)
(***************************************************************************)
VARIABLES e, d, encIn, encOut, encRet, encLast, wire,
          fed, decOut, decRet, decLast, decCalls, firstErr, panicked

vars == <<e, d, encIn, encOut, encRet, encLast, wire,
          fed, decOut, decRet, decLast, decCalls, firstErr, panicked>>

encVars == <<e, encIn, encOut, encRet, encLast>>

decVars == <<d, fed, decOut, decRet, decLast, decCalls, firstErr>>

InitGhost ==
    /\ encIn = <<>>
    /\ encOut = <<>>
    /\ encRet = <<>>
    /\ encLast = "New"
    /\ wire = <<>>
    /\ fed = <<>>
    /\ decOut = <<>>
    /\ decRet = [output |-> <<>>, err |-> nil]
    /\ decLast = "New"
    /\ decCalls = [finishes |-> 0, after |-> 0]
    /\ firstErr = [err |-> nil, by |-> "none"]
    /\ panicked = FALSE

\* A sender and a receiver that hold the same symmetric key and stream
\* nonce, the receiver holding the sender's verify key.
Init ==
    /\ \E sender \in Senders :
          /\ e = NewAttachmentEncoder(sender.encKey, sender.signKey, sender.nonce)
          /\ d = NewAttachmentDecoder(sender.encKey, PublicKey(sender.signKey), sender.nonce)
    /\ InitGhost

\* The same, the receiver holding a verify key that is not the sender's.
InitWrongKey ==
    /\ \E sender \in Senders, verifyKey \in VerifyKeys :
          /\ verifyKey # PublicKey(sender.signKey)
          /\ e = NewAttachmentEncoder(sender.encKey, sender.signKey, sender.nonce)
          /\ d = NewAttachmentDecoder(sender.encKey, verifyKey, sender.nonce)
    /\ InitGhost

(***************************************************************************)
(* Encoder calls.                                                          *)
(***************************************************************************)
EncCall(result, call, plaintext) ==
    /\ e' = result.e
    /\ encIn' = encIn \o plaintext
    /\ encOut' = encOut \o result.output
    /\ encRet' = result.output
    /\ encLast' = call
    /\ wire' = wire \o result.output
    /\ panicked' = (panicked \/ result.panic)

EncWrite ==
    /\ encLast \in {"New", "Write"}
    /\ \E plaintext \in SeqsUpTo(PlainBytes, MaxPlain - Len(encIn)) :
          EncCall(EncoderWrite(e, plaintext), "Write", plaintext)
    /\ UNCHANGED decVars

EncFinish ==
    /\ encLast \in {"New", "Write"}
    /\ EncCall(EncoderFinish(e), "Finish", <<>>)
    /\ UNCHANGED decVars

(***************************************************************************)
(* Decoder calls.                                                          *)
(***************************************************************************)
DecDone == decCalls.finishes > 0 \/ firstErr.err # nil

DecCall(result, call, ciphertext) ==
    /\ d' = result.d
    /\ fed' = IF firstErr.err = nil THEN fed \o ciphertext ELSE fed
    /\ decOut' = decOut \o result.output
    /\ decRet' = [output |-> result.output, err |-> result.err]
    /\ decLast' = call
    /\ decCalls' = [finishes |-> IF call = "Finish" /\ decCalls.finishes = 0
                                 THEN 1 ELSE decCalls.finishes,
                    after |-> decCalls.after + (IF DecDone THEN 1 ELSE 0)]
    /\ firstErr' = IF firstErr.err = nil /\ result.err # nil
                   THEN [err |-> result.err, by |-> call]
                   ELSE firstErr
    /\ panicked' = (panicked \/ result.panic)

\* The receiver is handed the next bytes in transit, cut anywhere, and
\* calls Finish at any point of the stream.
DecWrite ==
    /\ ~DecDone
    /\ \E n \in 0..(Len(wire) - Len(fed)) :
          LET ciphertext == Slice(wire, Len(fed), Len(fed) + n)
          IN  DecCall(DecoderWrite(d, ciphertext), "Write", ciphertext)
    /\ UNCHANGED <<encVars, wire>>

DecFinish ==
    /\ ~DecDone
    /\ DecCall(DecoderFinish(d), "Finish", <<>>)
    /\ UNCHANGED <<encVars, wire>>

Next == EncWrite \/ EncFinish \/ DecWrite \/ DecFinish

Spec == Init /\ [][Next]_vars

SpecWrongKey == InitWrongKey /\ [][Next]_vars

(***************************************************************************)
(* Properties of the sender and the honest receiver (Spec).                *)
(***************************************************************************)
Min(a, b) == IF a < b THEN a ELSE b

\* The receiver holds the verify key of the sender's signing key.
RightKey == d.verifyKey = PublicKey(e.signKey)

SenderSeal(plaintext) == SealWholeAttachment(plaintext, e.encKey, e.signKey, e.nonce)

ReceiverOpen(sealed) == OpenWholeAttachment(sealed, d.encKey, d.verifyKey, d.nonce)

\* A stream cut at its bin32 headers: each frame is 5 + its length field
\* bytes long (the last frame is whatever is left).
RECURSIVE Frames(_)
Frames(stream) ==
    IF stream = <<>> THEN <<>>
    ELSE IF Len(stream) < Bin32Overhead THEN <<stream>>
    ELSE LET length == IF ByteValue(stream[2]) > 0 THEN 16777216
                       ELSE 65536 * ByteValue(stream[3]) + 256 * ByteValue(stream[4])
                            + ByteValue(stream[5])
             size == Min(length + Bin32Overhead, Len(stream))
         IN  <<Slice(stream, 0, size)>> \o Frames(Slice(stream, size, Len(stream)))

\* The k-th chunk (from 0) of a plaintext.
Chunk(plaintext, k) ==
    Slice(plaintext, Min(k * PlaintextChunkLength, Len(plaintext)),
          Min((k + 1) * PlaintextChunkLength, Len(plaintext)))

\* C1: round trip. For every plaintext the sender has been given, opening
\* the whole sealed attachment with the same symmetric key, the matching
\* verify key and the same nonce returns no error and the plaintext.
C1_RoundTrip ==
    ReceiverOpen(SenderSeal(encIn)) = [output |-> encIn, err |-> nil]

C1_Witness ==
    /\ Len(encIn) > PlaintextChunkLength
    /\ Len(SenderSeal(encIn)) > PacketLength
    /\ ReceiverOpen(SenderSeal(encIn)).output = encIn

\* C3: streaming equivalence. However the plaintext was cut into Write
\* calls, after Finish the encoder has returned SealWholeAttachment of the
\* plaintext; however that ciphertext was cut into decoder Write calls,
\* after Finish the decoder has returned what OpenWholeAttachment returns.
C3_StreamingEquivalence ==
    /\ encLast = "Finish" => encOut = SenderSeal(encIn)
    /\ (encLast = "Finish" /\ decLast = "Finish" /\ fed = encOut)
          => /\ decRet.err = ReceiverOpen(encOut).err
             /\ decOut = ReceiverOpen(encOut).output

C3_Witness ==
    /\ encLast = "Finish" /\ decLast = "Finish" /\ fed = encOut
    /\ Len(encIn) > PlaintextChunkLength
    /\ encRet # encOut
    /\ decRet.output # decOut
    /\ decOut = encIn

\* C5: chunk structure. After Write calls and one Finish the output is at
\* least one packet; every packet but the last holds exactly
\* PlaintextChunkLength plaintext bytes, the last, which is what Finish
\* returned, holds fewer; packet k holds chunk k of the plaintext.
C5_ChunkStructure ==
    encLast = "Finish" =>
        LET frames == Frames(encOut)
            n == Len(frames)
        IN  /\ n >= 1
            /\ n = (Len(encIn) \div PlaintextChunkLength) + 1
            /\ frames[n] = encRet
            /\ \A k \in 1..n :
                  LET opened == openPacket(frames[k], k - 1, e.encKey,
                                           PublicKey(e.signKey), e.nonce)
                  IN  /\ opened.err = nil
                      /\ opened.plaintext = Chunk(encIn, k - 1)
                      /\ k < n => Len(opened.plaintext) = PlaintextChunkLength
                      /\ k = n => /\ Len(opened.plaintext) < PlaintextChunkLength
                                  /\ Len(opened.plaintext) = Len(encIn) % PlaintextChunkLength

C5_Witness ==
    /\ encLast = "Finish"
    /\ Len(encIn) = 2 * PlaintextChunkLength
    /\ Len(Frames(encOut)) = 3
    /\ Len(encRet) = getPacketLen(0)

\* C6: size determinism. The bytes returned by the Write calls and Finish
\* number GetSealedSize(n) = (n / chunk) * PacketLength + n % chunk + 64 +
\* 16 + 5 for a plaintext of n bytes, however it was cut.
C6_SizeDeterminism ==
    encLast = "Finish" =>
        /\ Len(encOut) = GetSealedSize(Len(encIn))
        /\ GetSealedSize(Len(encIn)) =
              (Len(encIn) \div PlaintextChunkLength) * PacketLength
              + (Len(encIn) % PlaintextChunkLength)
              + SignatureSize + SecretboxOverhead + Bin32Overhead

C6_Witness ==
    /\ encLast = "Finish"
    /\ Len(encIn) = PlaintextChunkLength + 1
    /\ Len(encOut) = PacketLength + getPacketLen(1)

\* C7: truncation at a packet boundary. When the decoder has been given
\* only whole full packets of the stream and Finish is called, every Write
\* has succeeded and Finish returns ShortMessagePackObject.
C7_TruncationAtBoundary ==
    (decLast = "Finish" /\ Len(fed) % PacketLength = 0) =>
        /\ decRet.err.Type = "ShortMessagePackObject"
        /\ decRet.output = <<>>
        /\ firstErr = [err |-> decRet.err, by |-> "Finish"]
        /\ Len(decOut) = (Len(fed) \div PacketLength) * PlaintextChunkLength

C7_Witness ==
    /\ decLast = "Finish"
    /\ encLast = "Finish"
    /\ Len(fed) = PacketLength
    /\ Len(encOut) > Len(fed)
    /\ decRet.err.Type = "ShortMessagePackObject"

\* The signed chunk (signature and plaintext) inside packet k (from 0) of
\* the sender's stream.
SignedChunkOf(packet, k) ==
    SecretboxOpen(Slice(packet, Bin32Overhead, Len(packet)),
                  makeChunkNonce(e.nonce, k), e.encKey).message

\* Packet k of the sender's stream, its signed chunk sealed again under
\* another symmetric key and the same chunk nonce, and framed.
Forwarded(packet, k, otherKey) ==
    packCiphertext(SecretboxSeal(SignedChunkOf(packet, k), makeChunkNonce(e.nonce, k),
                                 otherKey))

\* C11: surreptitious forwarding. The signed chunk of any packet the sender
\* sealed under its symmetric key, sealed again under another symmetric key
\* with the same chunk nonce and framed, opens as a secretbox under that
\* other key and is then refused with BadSignature by a receiver that holds
\* the other key, the sender's verify key and the sender's stream nonce; a
\* decoder given the first forwarded packet fails with BadSignature too.
C11_ForwardingGivesBadSignature ==
    encLast = "Finish" =>
        LET frames == Frames(encOut)
        IN  \A k \in 1..Len(frames), otherKey \in SecretboxKeys \ {e.encKey} :
               LET packet == Forwarded(frames[k], k - 1, otherKey)
                   opened == openPacket(packet, k - 1, otherKey, PublicKey(e.signKey), e.nonce)
               IN  /\ SecretboxOpen(Slice(packet, Bin32Overhead, Len(packet)),
                                    makeChunkNonce(e.nonce, k - 1), otherKey).valid
                   /\ opened.err.Type = "BadSignature"
                   /\ opened.plaintext = <<>>
                   /\ k = 1 => OpenWholeAttachment(packet, otherKey, PublicKey(e.signKey),
                                                   e.nonce).err.Type = "BadSignature"

C11_Witness ==
    /\ encLast = "Finish"
    /\ Len(encIn) > PlaintextChunkLength
    /\ \E otherKey \in SecretboxKeys \ {e.encKey} :
          LET packet == Forwarded(Frames(encOut)[2], 1, otherKey)
          IN  /\ packet # Frames(encOut)[2]
              /\ Len(packet) = Len(Frames(encOut)[2])
              /\ openPacket(packet, 1, otherKey, PublicKey(e.signKey), e.nonce).err.Type
                    = "BadSignature"
              /\ openPacket(packet, 1, e.encKey, PublicKey(e.signKey), e.nonce).err.Type
                    = "BadSecretbox"

(***************************************************************************)
(* The adversary (SpecAdv).  The sender K1, SK1, N1 seals a whole          *)
(* attachment; the transport hands the receiver a stream made from it.     *)
(* The receiver holds K1, N1 and the sender's verify key.  The adversary   *)
(* holds K2, SK2 and, as a participant of the  *)
(* conversation may, K1; it does not hold SK1.                          *)
(***************************************************************************)
AdvPlaintexts == SeqsUpTo({Raw(97)}, MaxPlain)

\* A byte that differs from b.
Altered(b) == IF b = Raw(0) THEN Raw(1) ELSE Raw(0)

RECURSIVE Flatten(_)
Flatten(seqs) == IF seqs = <<>> THEN <<>> ELSE Head(seqs) \o Flatten(Tail(seqs))

ReplaceAt(s, i, x) == SubSeq(s, 1, i - 1) \o x \o SubSeq(s, i + 1, Len(s))

InsertAt(s, i, x) == SubSeq(s, 1, i - 1) \o x \o SubSeq(s, i, Len(s))

\* Packets the adversary can put where packet k (from 1) of the stream
\* sealed from `plaintext` belongs: the same chunk sealed under another
\* symmetric key, signing key or stream nonce, and, made with K1, the
\* signed chunk of another packet, an altered plaintext under the original
\* signature, and a box too short to hold a signature.
ForgedPackets(plaintext, sealed, k) ==
    LET packets == Frames(sealed)
        chunk == Chunk(plaintext, k - 1)
        chunkNonce == makeChunkNonce("N1", k - 1)
        signedChunk(j) == SecretboxOpen(Slice(packets[j], Bin32Overhead, Len(packets[j])),
                                        makeChunkNonce("N1", j - 1), "K1").message
    IN  {sealPacket(chunk, k - 1, "K2", "SK1", "N1"),
         sealPacket(chunk, k - 1, "K1", "SK2", "N1"),
         sealPacket(chunk, k - 1, "K1", "SK1", "N2"),
         sealPacket(chunk, k - 1, "K2", "SK2", "N2"),
         packCiphertext(SecretboxSeal(Slice(signedChunk(k), 0, SignatureSize) \o <<Raw(98)>>,
                                      chunkNonce, "K1")),
         packCiphertext(SecretboxSeal(<<>>, chunkNonce, "K1"))}
        \cup {packCiphertext(SecretboxSeal(signedChunk(j), chunkNonce, "K1")) :
                 j \in (1..Len(packets)) \ {k}}

\* The streams the adversary can make of a sealed attachment: the stream
\* itself; a packet dropped, repeated, moved or replaced by a forged one; a
\* forged packet or a packet of the stream added anywhere; one byte changed,
\* added or removed anywhere.  (A stream cut short is the receiver calling
\* Finish before the end of the bytes in transit.)
AdvStreams(plaintext, sealed) ==
    LET packets == Frames(sealed)
        n == Len(packets)
        forged(k) == ForgedPackets(plaintext, sealed, Min(k, n))
    IN  {sealed}
        \cup {Flatten(ReplaceAt(packets, i, <<>>)) : i \in 1..n}
        \cup {Flatten(InsertAt(packets, i, <<packets[j]>>)) : i \in 1..(n + 1), j \in 1..n}
        \cup {Flatten(ReplaceAt(packets, i, <<packets[j]>>)) : i \in 1..n, j \in 1..n}
        \cup {Flatten(ReplaceAt(ReplaceAt(packets, i, <<packets[j]>>), j, <<packets[i]>>)) :
                 i \in 1..n, j \in 1..n}
        \cup UNION {{Flatten(ReplaceAt(packets, i, <<f>>)) : f \in forged(i)} : i \in 1..n}
        \cup UNION {{Flatten(InsertAt(packets, i, <<f>>)) : f \in forged(i)} : i \in 1..(n + 1)}
        \cup {ReplaceAt(sealed, i, <<Altered(sealed[i])>>) : i \in 1..Len(sealed)}
        \cup {InsertAt(sealed, i, <<Raw(Bin32Tag)>>) : i \in 1..(Len(sealed) + 1)}
        \cup {ReplaceAt(sealed, i, <<>>) : i \in 1..Len(sealed)}

InitAdv ==
    /\ e = NewAttachmentEncoder("K1", "SK1", "N1")
    /\ d = NewAttachmentDecoder("K1", PublicKey("SK1"), "N1")
    /\ InitGhost

\* The sender seals the whole attachment.
AdvSeal ==
    /\ encLast = "New"
    /\ \E plaintext \in AdvPlaintexts :
          LET sealed == SealWholeAttachment(plaintext, e.encKey, e.signKey, e.nonce)
          IN  /\ encIn' = plaintext
              /\ encOut' = sealed
              /\ encRet' = sealed
    /\ encLast' = "Whole"
    /\ UNCHANGED <<e, wire, decVars, panicked>>

\* The transport puts a stream of its making in transit.
AdvSend ==
    /\ encLast = "Whole"
    /\ wire = <<>>
    /\ wire' \in AdvStreams(encIn, encOut) \ {<<>>}
    /\ UNCHANGED <<encVars, decVars, panicked>>

\* Calls on a decoder that has finished or failed: Write with nothing or
\* with all the bytes left in transit, and Finish.
DecWriteAgain ==
    /\ DecDone
    /\ decCalls.after < MaxAfter
    /\ \E n \in {0, Len(wire) - Len(fed)} :
          LET ciphertext == Slice(wire, Len(fed), Len(fed) + n)
          IN  DecCall(DecoderWrite(d, ciphertext), "Write", ciphertext)
    /\ UNCHANGED <<encVars, wire>>

DecFinishAgain ==
    /\ DecDone
    /\ decCalls.after < MaxAfter
    /\ DecCall(DecoderFinish(d), "Finish", <<>>)
    /\ UNCHANGED <<encVars, wire>>

NextAdv == AdvSeal \/ AdvSend \/ DecWrite \/ DecFinish \/ DecWriteAgain \/ DecFinishAgain

SpecAdv == InitAdv /\ [][NextAdv]_vars

(***************************************************************************)
(* Properties of the receiver under the adversary (SpecAdv), and of the    *)
(* receiver that holds the wrong verify key (SpecWrongKey).                *)
(***************************************************************************)
IsProperPrefix(a, b) == Len(a) < Len(b) /\ SubSeq(b, 1, Len(a)) = a

\* C2: authenticity of an accepted stream. Whatever stream the adversary
\* made of the sealed attachment and however it was cut into Write calls,
\* when Finish returns no error no call has returned one, the bytes the
\* decoder was given are exactly the sealed attachment and the plaintext
\* it returned is exactly what was sealed; so any other stream got an error.
C2_Authenticity ==
    (decLast = "Finish" /\ decRet.err = nil) =>
        /\ firstErr.err = nil
        /\ fed = encOut
        /\ decOut = encIn

C2_Witness ==
    /\ wire # encOut
    /\ Len(encIn) >= 2 * PlaintextChunkLength
    /\ decLast = "Finish"
    /\ decRet.err = nil
    /\ fed = encOut
    /\ decOut = encIn

\* C4: sticky error. Once a Write or Finish has returned an error, the
\* decoder holds that error and the latest call, whichever it is and
\* whatever it was given, has returned that same error and no plaintext.
C4_StickyError ==
    firstErr.err # nil =>
        /\ d.err = firstErr.err
        /\ decRet = [output |-> <<>>, err |-> firstErr.err]

C4_Witness ==
    /\ firstErr.err # nil
    /\ firstErr.by = "Finish"
    /\ firstErr.err.Type = "WrongMessagePackLength"
    /\ decCalls.after > 0
    /\ decLast = "Write"
    /\ Len(d.buf) < Len(wire) - (Len(fed) - Len(d.buf))
    /\ decRet.err = firstErr.err

\* C8: extra bytes. When the decoder has been given a whole sealed stream
\* followed by at least one more byte, in any cut, Finish returns an error
\* and no plaintext.
C8_ExtraBytes ==
    (decLast = "Finish" /\ IsProperPrefix(encOut, fed)) =>
        /\ decRet.err # nil
        /\ decRet.output = <<>>

C8_Witness ==
    /\ decLast = "Finish"
    /\ IsProperPrefix(encOut, fed)
    /\ Len(encIn) >= PlaintextChunkLength
    /\ firstErr.by = "Finish"
    /\ decRet.err.Type = "WrongMessagePackLength"

\* The stream with two of its full packets exchanged.
IsPacketSwap(stream, sealed) ==
    LET packets == Frames(sealed)
    IN  \E i, j \in 1..(Len(packets) - 1) :
           /\ i < j
           /\ stream = Flatten(ReplaceAt(ReplaceAt(packets, i, <<packets[j]>>),
                                         j, <<packets[i]>>))

\* The bytes before the first of the two exchanged packets, and that packet.
FirstSwappedEnd(stream, sealed) ==
    LET packets == Frames(sealed)
        first == CHOOSE i \in 1..(Len(packets) - 1) :
                    \E j \in (i + 1)..(Len(packets) - 1) :
                       stream = Flatten(ReplaceAt(ReplaceAt(packets, i, <<packets[j]>>),
                                                  j, <<packets[i]>>))
    IN  first * PacketLength

\* C9 as claimed: opening a stream with two full packets exchanged fails
\* with BadSignature.
C9_SwapGivesBadSignature ==
    (encLast = "Whole" /\ IsPacketSwap(wire, encOut)) =>
        /\ ReceiverOpen(wire).err.Type = "BadSignature"
        /\ Len(fed) >= FirstSwappedEnd(wire, encOut) => firstErr.err.Type = "BadSignature"

\* C9 as amended: opening a stream with two full packets exchanged fails
\* with BadSecretbox, returned by the Write that completes the first
\* exchanged packet: the chunk number is part of the secretbox nonce, and
\* the secretbox is opened before the signature is looked at.
C9_SwapGivesBadSecretbox ==
    (encLast = "Whole" /\ IsPacketSwap(wire, encOut)) =>
        /\ ReceiverOpen(wire).err.Type = "BadSecretbox"
        /\ ReceiverOpen(wire).output = <<>>
        /\ Len(fed) >= FirstSwappedEnd(wire, encOut) =>
              /\ firstErr.err.Type = "BadSecretbox"
              /\ firstErr.by = "Write"

C9_Witness ==
    /\ encLast = "Whole"
    /\ Len(encIn) >= 2 * PlaintextChunkLength
    /\ IsPacketSwap(wire, encOut)
    /\ wire # encOut
    /\ fed = wire
    /\ firstErr.err.Type = "BadSecretbox"

\* C10: wrong public key. A receiver that holds the sender's symmetric key
\* and nonce but another verify key never returns plaintext and never gets
\* past chunk 0; opening the packet with chunk index 0, in Write or in
\* Finish, fails with BadSignature, and so does OpenWholeAttachment.
C10_WrongPublicKey ==
    ~RightKey =>
        /\ decOut = <<>>
        /\ d.chunkNum = 0
        /\ Len(fed) >= PacketLength => firstErr.err.Type = "BadSignature"
        /\ (encLast = "Finish" /\ decLast = "Finish" /\ fed = encOut)
              => decRet.err.Type = "BadSignature"
        /\ (encLast = "Finish" /\ encIn # <<>>)
              => LET opened == ReceiverOpen(encOut)
                 IN  opened.output = <<>> /\ opened.err.Type = "BadSignature"

C10_Witness ==
    /\ ~RightKey
    /\ encLast = "Finish"
    /\ Len(encIn) > PlaintextChunkLength
    /\ fed = encOut
    /\ firstErr.by = "Write"
    /\ firstErr.err.Type = "BadSignature"
    /\ ReceiverOpen(encOut).err.Type = "BadSignature"

\* The byte values a changed byte is given, and the bytes of the stream
\* itself (a signature or secretbox byte put where another belongs).
MutationValues == {0, 1, 4, 5, 197, 198, 250, 251, 255}

MutationBytes(sealed) ==
    {Raw(v) : v \in MutationValues} \cup {sealed[j] : j \in 1..Len(sealed)}

\* The stream is the sealed stream with exactly one byte changed.
IsOneByteMutation(stream, sealed) ==
    /\ Len(stream) = Len(sealed)
    /\ Cardinality({i \in 1..Len(sealed) : stream[i] # sealed[i]}) = 1

MutationErrorTypes ==
    {"BadSecretbox", "BadSignature", "WrongMessagePackLength", "WrongMessagePackFormat"}

\* C12: one-byte mutation. For every sealed stream, every position in it
\* and every different byte put there, OpenWholeAttachment returns no
\* plaintext and an error of kind BadSecretbox, BadSignature,
\* WrongMessagePackLength or WrongMessagePackFormat; and a decoder that was
\* given such a stream whole, in any cut, and then finished, got its first
\* error of one of these kinds, and Finish returned it.
C12_OneByteMutation ==
    /\ (encLast = "Whole" /\ decLast = "New") =>
          \A i \in 1..Len(encOut) : \A b \in MutationBytes(encOut) \ {encOut[i]} :
             LET opened == ReceiverOpen(ReplaceAt(encOut, i, <<b>>))
             IN  /\ opened.output = <<>>
                 /\ opened.err # nil
                 /\ opened.err.Type \in MutationErrorTypes
    /\ (IsOneByteMutation(wire, encOut) /\ fed = wire /\ decCalls.finishes > 0) =>
          /\ firstErr.err # nil
          /\ firstErr.err.Type \in MutationErrorTypes
          /\ decRet = [output |-> <<>>, err |-> firstErr.err]

C12_Witness ==
    /\ IsOneByteMutation(wire, encOut)
    /\ Len(encIn) > PlaintextChunkLength
    /\ wire[PacketLength + 2] # encOut[PacketLength + 2]
    /\ fed = wire
    /\ decLast = "Finish"
    /\ firstErr.by = "Write"
    /\ firstErr.err.Type = "WrongMessagePackLength"
    /\ Len(decOut) = PlaintextChunkLength

(***************************************************************************)
(* One packet of any making (SpecPacket).  The receiver K1, N1 holding the *)
(* verify key of SK1 is handed a single packet that may fail any of the    *)
(* checks of openPacket, several at once, and opens it as chunk 0: in      *)
(* Write when it is PacketLength bytes long, in Finish when it is shorter. *)
(***************************************************************************)
\* What follows the header: the secretbox of a signed chunk; the same under
\* another symmetric key; with a signature of another signing key; the
\* secretbox of less than a signature, under either key; bytes that are no
\* secretbox.
CraftedCiphertexts ==
    LET chunkNonce == makeChunkNonce("N1", 0)
        signature(signKey, plaintext) ==
            Ed25519Sign(signKey, makeSignatureInput(plaintext, "K1", chunkNonce))
    IN  UNION {{SecretboxSeal(signature("SK1", plaintext) \o plaintext, chunkNonce, "K1"),
                SecretboxSeal(signature("SK1", plaintext) \o plaintext, chunkNonce, "K2"),
                SecretboxSeal(signature("SK2", plaintext) \o plaintext, chunkNonce, "K1"),
                SecretboxSeal(signature("SK2", plaintext) \o plaintext, chunkNonce, "K2"),
                SecretboxSeal(Slice(signature("SK1", plaintext), 0, SignatureSize - 1),
                              chunkNonce, "K1"),
                SecretboxSeal(Slice(signature("SK2", plaintext), 0, SignatureSize - 1),
                              chunkNonce, "K2"),
                [i \in 1..(SecretboxOverhead + SignatureSize + Len(plaintext)) |-> Raw(0)]} :
               plaintext \in SeqsUpTo({Raw(97)}, PlaintextChunkLength)}

\* Length fields for a ciphertext of n bytes: n; one more; n with the
\* header counted; n with one of the three upper bytes set; and the five
\* largest 32-bit values, for which length + 5 wraps around.
LengthFields(n) ==
    {PutUint32(n), PutUint32(n + 1), PutUint32(n + Bin32Overhead),
     PutUint32(n + 256), PutUint32(n + 65536), PutUint32(n + 16777216)}
    \cup {<<Raw(255), Raw(255), Raw(255), Raw(256 - Bin32Overhead + k)>> :
             k \in 0..(Bin32Overhead - 1)}

\* Packets: a right or wrong tag, a length field and a ciphertext; and
\* every prefix of a header.
CraftedPackets ==
    UNION {{<<tag>> \o length \o ciphertext :
               tag \in {Raw(Bin32Tag), Raw(0)}, length \in LengthFields(Len(ciphertext))} :
           ciphertext \in CraftedCiphertexts}
    \cup {SubSeq(<<tag>> \o PutUint32(SecretboxOverhead + SignatureSize), 1, n) :
             tag \in {Raw(Bin32Tag), Raw(0)}, n \in 0..Bin32Overhead}

InitPacket ==
    /\ e = NewAttachmentEncoder("K1", "SK1", "N1")
    /\ d = NewAttachmentDecoder("K1", PublicKey("SK1"), "N1")
    /\ encIn = <<>>
    /\ encOut = <<>>
    /\ encRet = <<>>
    /\ encLast = "New"
    /\ wire \in CraftedPackets
    /\ fed = <<>>
    /\ decOut = <<>>
    /\ decRet = [output |-> <<>>, err |-> nil]
    /\ decLast = "New"
    /\ decCalls = [finishes |-> 0, after |-> 0]
    /\ firstErr = [err |-> nil, by |-> "none"]
    /\ panicked = FALSE

NextPacket == DecWrite \/ DecFinish

SpecPacket == InitPacket /\ [][NextPacket]_vars

\* The checks of openPacket in their order, by the error kind of each.
PacketChecks ==
    <<"ShortMessagePackObject", "WrongMessagePackFormat", "WrongMessagePackLength",
      "BadSecretbox", "ShortSignature", "BadSignature">>

\* Whether a packet fails the k-th check, each check taken by itself on
\* the bytes it is about (a check whose bytes are missing is failed).
FailsCheck(packet, k, chunkNum, encKey, verifyKey, attachmentNonce) ==
    LET chunkNonce == makeChunkNonce(attachmentNonce, chunkNum)
        opened == SecretboxOpen(SubSeq(packet, Bin32Overhead + 1, Len(packet)),
                                chunkNonce, encKey)
        signedChunk == opened.message
        plaintext == SubSeq(signedChunk, SignatureSize + 1, Len(signedChunk))
    IN  CASE k = 1 -> Len(packet) < 5
          [] k = 2 -> Len(packet) < 1 \/ packet[1] # Raw(198)
          [] k = 3 -> Len(packet) < 5 \/ SubSeq(packet, 2, 5) # PutUint32(Len(packet) - 5)
          [] k = 4 -> ~opened.valid
          [] k = 5 -> ~opened.valid \/ Len(signedChunk) < SignatureSize
          [] k = 6 -> \/ ~opened.valid
                      \/ Len(signedChunk) < SignatureSize
                      \/ ~Ed25519Verify(verifyKey,
                                        makeSignatureInput(plaintext, encKey, chunkNonce),
                                        SubSeq(signedChunk, 1, SignatureSize))

FailedChecks(packet, chunkNum, encKey, verifyKey, attachmentNonce) ==
    {k \in 1..6 : FailsCheck(packet, k, chunkNum, encKey, verifyKey, attachmentNonce)}

\* C13: order of checks. openPacket on any packet returns plaintext and no
\* error exactly when the packet fails none of the six checks, and else no
\* plaintext and the error kind of the earliest check the packet fails, in
\* the order ShortMessagePackObject, WrongMessagePackFormat,
\* WrongMessagePackLength, BadSecretbox, ShortSignature, BadSignature; the
\* decoder that opened the packet returned the same.
C13_OrderOfChecks ==
    LET opened == openPacket(wire, 0, d.encKey, d.verifyKey, d.nonce)
        failed == FailedChecks(wire, 0, d.encKey, d.verifyKey, d.nonce)
        earliest == CHOOSE k \in failed : \A other \in failed : k <= other
    IN  /\ failed = {} =>
              /\ opened.err = nil
              /\ SecretboxSeal(Ed25519Sign(e.signKey,
                                  makeSignatureInput(opened.plaintext, d.encKey,
                                                     makeChunkNonce(d.nonce, 0)))
                               \o opened.plaintext,
                               makeChunkNonce(d.nonce, 0), d.encKey)
                    = SubSeq(wire, Bin32Overhead + 1, Len(wire))
        /\ failed # {} =>
              /\ opened.plaintext = <<>>
              /\ opened.err # nil
              /\ opened.err.Type = PacketChecks[earliest]
        /\ (fed = wire /\ (decLast = "Finish" \/ Len(wire) = PacketLength)) =>
              /\ decOut = opened.plaintext
              /\ failed # {} => firstErr.err = opened.err

C13_Witness ==
    /\ FailedChecks(wire, 0, d.encKey, d.verifyKey, d.nonce) = {2, 3, 4, 5, 6}
    /\ Len(wire) = PacketLength
    /\ fed = wire
    /\ decLast = "Write"
    /\ decRet.err.Type = "WrongMessagePackFormat"

(***************************************************************************)
(* Further properties of the receiver under the adversary (SpecAdv).       *)
(***************************************************************************)
\* C14: no partial plaintext on a failing Write. The Write call that
\* returns the first error returns no plaintext, however many packets it
\* opened before the one that failed, and the plaintext the decoder has
\* returned does not grow in that call nor in any call after it.
C14_NoPartialPlaintext ==
    [][(/\ (firstErr.err = nil /\ firstErr'.err # nil /\ decLast' = "Write") =>
              (decRet'.output = <<>> /\ decRet'.err = d'.err /\ decOut' = decOut)
        /\ firstErr.err # nil =>
              (decOut' = decOut /\ decRet'.output = <<>>))]_vars

\* A Write opened two packets and failed on the third; a later call was made.
C14_Witness ==
    /\ firstErr.by = "Write"
    /\ d.chunkNum = 2
    /\ decOut = <<>>
    /\ Len(d.buf) >= PacketLength
    /\ decCalls.after > 0
    /\ decLast = "Finish"

(***************************************************************************)
(* Long streams (SpecOverflow).  The sender K1, SK1, N1 writes one byte    *)
(* value, one byte, one chunk or two chunks at a time, until the stream    *)
(* holds one packet more than the chunk number has values; the receiver    *)
(* is handed what the encoder returned.  The chunk number is uint64 in     *)
(* crypto.go and ChunkNumBits wide here.                                   *)
(***************************************************************************)
MaxOverflowPlain == (Uint64Modulus + 1) * PlaintextChunkLength

EncWriteMore ==
    /\ encLast \in {"New", "Write"}
    /\ \E n \in {1, PlaintextChunkLength, 2 * PlaintextChunkLength} :
          /\ Len(encIn) + n <= MaxOverflowPlain
          /\ LET plaintext == [i \in 1..n |-> Raw(97)]
             IN  EncCall(EncoderWrite(e, plaintext), "Write", plaintext)
    /\ UNCHANGED decVars

NextOverflow == EncWriteMore \/ EncFinish \/ DecWrite \/ DecFinish

SpecOverflow == InitAdv /\ [][NextOverflow]_vars

\* The bytes of `fed` the decoder has taken out of its buffer as packets.
Consumed == SubSeq(fed, 1, Len(fed) - Len(d.buf))

\* The chunk nonce a sealed packet was made with.
NonceOf(packet) == packet[Bin32Overhead + 1].nonce

\* C15 as claimed: consecutive chunk indices. In every state the encoder's
\* chunk index is the number of packets it has returned, packet k (from 0)
\* is sealPacket of chunk k under the chunk nonce of index k, the decoder's
\* chunk index is the number of packets it has opened, packet k it opened
\* opens under index k, and no two packets of the stream have one chunk
\* nonce.
C15_ConsecutiveIndices ==
    LET sent == Frames(encOut)
        opened == Frames(Consumed)
    IN  /\ e.chunkNum = Len(sent)
        /\ \A k \in 1..Len(sent) :
              /\ sent[k] = sealPacket(Chunk(encIn, k - 1), k - 1, e.encKey, e.signKey, e.nonce)
              /\ NonceOf(sent[k]) = makeChunkNonce(e.nonce, k - 1)
        /\ \A j, k \in 1..Len(sent) : j # k => NonceOf(sent[j]) # NonceOf(sent[k])
        /\ d.chunkNum = Len(opened)
        /\ \A k \in 1..Len(opened) :
              openPacket(opened[k], k - 1, d.encKey, d.verifyKey, d.nonce).err = nil

\* The stream has as many packets as the chunk number has values: the
\* encoder's chunk index is 0 again.
C15_Witness ==
    /\ Len(Frames(encOut)) = Uint64Modulus
    /\ e.chunkNum = 0
    /\ encLast = "Write"

\* C18 as claimed: chunk index overflow. An encoder whose chunk index is at
\* its largest value does not return one more packet without failing, a
\* decoder whose chunk index is at its largest value does not open one more
\* packet without failing, and no later packet is sealed under the chunk
\* nonce of chunk 0.
C18_OverflowFails ==
    LET sent == Frames(encOut)
    IN  /\ Len(sent) >= Uint64Modulus => panicked
        /\ Len(Frames(Consumed)) >= Uint64Modulus => (panicked \/ firstErr.err # nil)
        /\ \A k \in 2..Len(sent) : NonceOf(sent[k]) # NonceOf(sent[1])

\* One packet past the wrap: the packet after the largest chunk index is
\* sealed under the chunk nonce of chunk 0, it is byte for byte the first
\* packet of the stream, and the decoder has opened it and finished without
\* an error.
C18_Witness ==
    LET sent == Frames(encOut)
    IN  /\ encLast = "Finish"
        /\ Len(sent) = Uint64Modulus + 2
        /\ sent[Uint64Modulus + 1] = sent[1]
        /\ NonceOf(sent[Uint64Modulus + 1]) = makeChunkNonce(e.nonce, 0)
        /\ ~panicked
        /\ fed = encOut
        /\ decLast = "Finish"
        /\ firstErr.err = nil
        /\ decOut = encIn

(***************************************************************************)
(* Calls in any order (SpecCalls).  The sender calls Write and Finish in   *)
(* any order, Finish any number of times and Write after Finish; the       *)
(* receiver is handed what the encoder returned, cut anywhere, and calls   *)
(* Write and Finish in any order, also after Finish and after an error     *)
(* (Write then with nothing or with all the bytes left).                   *)
(***************************************************************************)
EncWriteAny ==
    /\ \E plaintext \in SeqsUpTo({Raw(97)}, MaxPlain - Len(encIn)) :
          EncCall(EncoderWrite(e, plaintext), "Write", plaintext)
    /\ UNCHANGED decVars

EncFinishAny ==
    /\ Len(Frames(encOut)) <= MaxPlain \div PlaintextChunkLength
    /\ EncCall(EncoderFinish(e), "Finish", <<>>)
    /\ UNCHANGED decVars

DecWriteAny ==
    /\ decCalls.after <= MaxAfter
    /\ \E n \in IF DecDone THEN {0, Len(wire) - Len(fed)} ELSE 0..(Len(wire) - Len(fed)) :
          LET ciphertext == Slice(wire, Len(fed), Len(fed) + n)
          IN  DecCall(DecoderWrite(d, ciphertext), "Write", ciphertext)
    /\ UNCHANGED <<encVars, wire>>

DecFinishAny ==
    /\ decCalls.after <= MaxAfter
    /\ DecCall(DecoderFinish(d), "Finish", <<>>)
    /\ UNCHANGED <<encVars, wire>>

NextCalls == EncWriteAny \/ EncFinishAny \/ DecWriteAny \/ DecFinishAny

SpecCalls == InitAdv /\ [][NextCalls]_vars

\* C16: Finish preconditions. After any calls the encoder's buffer holds
\* fewer than PlaintextChunkLength bytes, so that Finish and the Write loop
\* find what they expect; the decoder's buffer holds fewer than PacketLength
\* bytes unless an error is stored; no call has panicked and neither Finish
\* would panic now.
C16_FinishPreconditions ==
    /\ Len(e.buf) < PlaintextChunkLength
    /\ d.err = nil => Len(d.buf) < PacketLength
    /\ ~panicked
    /\ ~EncoderFinish(e).panic
    /\ ~DecoderFinish(d).panic

\* The encoder has finished twice and written in between; the decoder holds
\* an error and a buffer of a full packet or more, and Finish was called on
\* it after the error.
C16_Witness ==
    /\ encLast = "Finish"
    /\ Len(Frames(encOut)) > (Len(encIn) \div PlaintextChunkLength) + 1
    /\ d.err # nil
    /\ Len(d.buf) >= PacketLength
    /\ decLast = "Finish"
    /\ decCalls.after > 0
    /\ ~panicked

\* The inputs a Write call can be given in a state: for the decoder the
\* next bytes in transit, for the encoder what is left of the plaintext.
NextCiphertexts == {Slice(wire, Len(fed), Len(fed) + n) : n \in 0..(Len(wire) - Len(fed))}

NextPlaintexts == SeqsUpTo({Raw(97)}, MaxPlain - Len(encIn))

\* The largest size the decoder's buffer has during a Write call: after
\* the input is appended, which a decoder with a stored error does not do.
DecoderWritePeak(ciphertext) ==
    IF d.err # nil THEN Len(d.buf) ELSE Len(d.buf) + Len(ciphertext)

\* C17 as claimed: bounded buffers. Whatever Write call is made in any
\* state, a decoder error stored or not, during the call and after it the
\* encoder's buffer holds at most PlaintextChunkLength bytes plus the size
\* of the call's input, and the decoder's at most PacketLength plus the
\* size of the call's input.
C17_BoundedBuffers ==
    /\ \A plaintext \in NextPlaintexts :
          /\ Len(e.buf) + Len(plaintext) <= PlaintextChunkLength + Len(plaintext)
          /\ Len(EncoderWrite(e, plaintext).e.buf) <= PlaintextChunkLength + Len(plaintext)
    /\ \A ciphertext \in NextCiphertexts :
          /\ DecoderWritePeak(ciphertext) <= PacketLength + Len(ciphertext)
          /\ Len(DecoderWrite(d, ciphertext).d.buf) <= PacketLength + Len(ciphertext)

\* C17 as amended: the bound holds for every Write call made while no
\* error is stored, the failing call included; a Write or Finish on a
\* decoder with a stored error leaves the buffer as that failing call left
\* it, whatever the size of its own input; Finish never adds to a buffer.
C17_BoundedBuffersNoError ==
    /\ \A plaintext \in NextPlaintexts :
          /\ Len(e.buf) + Len(plaintext) <= PlaintextChunkLength + Len(plaintext)
          /\ Len(EncoderWrite(e, plaintext).e.buf) <= PlaintextChunkLength + Len(plaintext)
    /\ Len(EncoderFinish(e).e.buf) <= Len(e.buf)
    /\ \A ciphertext \in NextCiphertexts :
          /\ d.err = nil =>
                /\ DecoderWritePeak(ciphertext) <= PacketLength + Len(ciphertext)
                /\ Len(DecoderWrite(d, ciphertext).d.buf) <= PacketLength + Len(ciphertext)
          /\ d.err # nil => DecoderWrite(d, ciphertext).d.buf = d.buf
    /\ d.err # nil => DecoderFinish(d).d.buf = d.buf
    /\ Len(DecoderFinish(d).d.buf) <= Len(d.buf)

\* A Write failed on the first of the packets it was given and left more
\* than PacketLength bytes in the buffer; a Write with no input was made
\* after it.
C17_Witness ==
    /\ firstErr.by = "Write"
    /\ d.err # nil
    /\ Len(d.buf) > PacketLength
    /\ Len(fed) = Len(wire)
    /\ decLast = "Write"
    /\ decCalls.after > 0

\* C19: strict frame length. For every packet of at least 5 bytes with the
\* tag 0xC6 and every value of its length field, the five largest 32-bit
\* values included, unpackCiphertext returns WrongMessagePackLength exactly
\* when the length field plus 5 is not the packet's size, and else the
\* bytes after the header; the decoder that opened the packet failed with
\* WrongMessagePackLength in exactly those cases.  (The packet is shorter
\* than 2^24 bytes, so the field equals its size less 5 only when its first
\* byte is 0.)
C19_StrictFrameLength ==
    (Len(wire) >= 5 /\ wire[1] = Raw(198)) =>
        LET unpacked == unpackCiphertext(wire)
            matches == /\ wire[2].v = 0
                       /\ 65536 * wire[3].v + 256 * wire[4].v + wire[5].v + 5 = Len(wire)
        IN  /\ matches => unpacked = [ciphertext |-> SubSeq(wire, 6, Len(wire)), err |-> nil]
            /\ ~matches => /\ unpacked.ciphertext = <<>>
                           /\ unpacked.err.Type = "WrongMessagePackLength"
            /\ (fed = wire /\ (decLast = "Finish" \/ Len(wire) = PacketLength)) =>
                  (firstErr.err.Type = "WrongMessagePackLength" <=> ~matches)

\* A packet whose length field is the largest 32-bit value, handed to the
\* decoder whole and refused for its length.
C19_Witness ==
    /\ Len(wire) = PacketLength
    /\ wire[1] = Raw(198)
    /\ SubSeq(wire, 2, 5) = <<Raw(255), Raw(255), Raw(255), Raw(255)>>
    /\ Uint32Plus5(255, 255, 255, 255) = <<0, 0, 0, 4>>
    /\ fed = wire
    /\ decLast = "Write"
    /\ firstErr.err.Type = "WrongMessagePackLength"

\* C20: a Write on a decoder with a stored error changes nothing. Whatever
\* bytes it is given, the decoder after the call is the decoder before it:
\* the same buffer, with nothing appended, the same chunk index and the
\* same stored error; the call returns that error and no plaintext.
C20_WriteAfterErrorChangesNothing ==
    d.err # nil =>
        \A ciphertext \in NextCiphertexts \cup {<<Raw(Bin32Tag)>>, encOut} :
           LET written == DecoderWrite(d, ciphertext)
           IN  /\ written.d = d
               /\ written.d.buf = d.buf
               /\ written.d.chunkNum = d.chunkNum
               /\ written.d.err = d.err
               /\ written.output = <<>>
               /\ written.err = d.err
               /\ ~written.panic

\* A decoder that opened a packet and then failed; a Write was made on it
\* while bytes were left in transit.
C20_Witness ==
    /\ d.err # nil
    /\ d.chunkNum > 0
    /\ d.buf # <<>>
    /\ Len(wire) > Len(fed)
    /\ decLast = "Write"
    /\ decCalls.after > 0
    /\ decRet = [output |-> <<>>, err |-> d.err]

\* C21: plaintext is released in whole chunks before the end. A Write that
\* returns no error returns PlaintextChunkLength bytes for each packet it
\* opened, each packet being PacketLength bytes of the buffer, so a
\* multiple of PlaintextChunkLength; a Finish that returns no error
\* returns fewer than PlaintextChunkLength bytes; this holds of the last
\* call made and of every call that can be made now.
C21_WholeChunks ==
    /\ (decLast = "Write" /\ decRet.err = nil) =>
          Len(decRet.output) % PlaintextChunkLength = 0
    /\ (decLast = "Finish" /\ decRet.err = nil) =>
          Len(decRet.output) < PlaintextChunkLength
    /\ \A ciphertext \in NextCiphertexts :
          LET written == DecoderWrite(d, ciphertext)
              taken == Len(d.buf) + Len(ciphertext) - Len(written.d.buf)
          IN  written.err = nil =>
                 /\ taken % PacketLength = 0
                 /\ Len(written.output) = (taken \div PacketLength) * PlaintextChunkLength
                 /\ Len(written.d.buf) < PacketLength
    /\ LET finished == DecoderFinish(d)
       IN  (finished.err = nil /\ ~finished.panic) =>
              /\ Len(finished.output) < PlaintextChunkLength
              /\ Len(finished.output) = Len(d.buf) - getPacketLen(0)
              /\ finished.d.buf = <<>>

\* One Write opened two packets and returned two chunks; the whole short
\* packet that ends the stream is in the buffer, left for Finish.
C21_Witness ==
    /\ decLast = "Write"
    /\ decRet.err = nil
    /\ Len(decRet.output) = 2 * PlaintextChunkLength
    /\ d.chunkNum = 2
    /\ fed = wire
    /\ Len(d.buf) = getPacketLen(1)
    /\ DecoderFinish(d).err = nil
    /\ Len(DecoderFinish(d).output) = 1

=============================================================================
